---- MODULE Spec2Model ----
(***************************************************************************)
(* Model of change_ip.py, a netplan-based IP changer.                      *)
(*                                                                         *)
(* Python strings are modelled as sequences of lexical atoms: an atom is   *)
(* an indivisible piece of text ("ens36", "/", " ", ".yaml", ...).  The    *)
(* string operations the program uses (strip, lower, split, join, in,     *)
(* endswith, isdigit, int) are computed on these sequences.                *)
(***************************************************************************)
EXTENDS Integers, Sequences, FiniteSets, TLC

VARIABLES pc, host_links, host_addrs, euid, args, link_output, addr_output, interfaces,
          allow_empty, typed, chosen,
          dhcp_if, static_if, address, gateway, dns_list,
          files, dirs, backup_dir, yaml_content,
          exit_status, message, confirm, apply_outcome,
          backups, writes, applies, prompted, asked

vars == <<pc, host_links, host_addrs, euid, args, link_output, addr_output, interfaces,
          allow_empty, typed, chosen,
          dhcp_if, static_if, address, gateway, dns_list,
          files, dirs, backup_dir, yaml_content,
          exit_status, message, confirm, apply_outcome,
          backups, writes, applies, prompted, asked>>

(***************************************************************************)
(* Python values                                                           *)
(***************************************************************************)
\* Python's None where a string is expected, and where a list of strings is.
None == <<"<None>">>
NoneList == <<None>>

\* Truth value of an Optional[str]: None and "" are falsy.
Truthy(v) == v # None /\ v # <<>>

\* Truth value of an Optional[List[str]]: None and [] are falsy.
TruthyList(l) == l # NoneList /\ l # <<>>

\* x or None
OrNone(v) == IF Truthy(v) THEN v ELSE None

\* d[k] = v on a dict modelled as a function
Put(d, k, v) == [x \in DOMAIN d \cup {k} |-> IF x = k THEN v ELSE d[x]]

\* Placeholder for a variable that has not been assigned yet.
Unset == <<"<unset>">>

(***************************************************************************)
(* String operations                                                       *)
(***************************************************************************)
IsSpace(a) == a \in {" ", "\t", "\n"}

RECURSIVE LStrip(_)
LStrip(s) == IF s # <<>> /\ IsSpace(Head(s)) THEN LStrip(Tail(s)) ELSE s

RECURSIVE RStrip(_)
RStrip(s) == IF s # <<>> /\ IsSpace(s[Len(s)]) THEN RStrip(SubSeq(s, 1, Len(s) - 1)) ELSE s

\* str.strip()
Strip(s) == RStrip(LStrip(s))

LowerAtom(a) == CASE a = "Y" -> "y"
                  [] a = "N" -> "n"
                  [] a = "E" -> "e"
                  [] a = "S" -> "s"
                  [] OTHER -> a

\* str.lower()
Lower(s) == [i \in 1..Len(s) |-> LowerAtom(s[i])]

\* sub in s, for a one-atom sub
Contains(s, a) == \E i \in 1..Len(s) : s[i] = a

\* Position of the first occurrence of atom a in s, 0 when absent.
RECURSIVE FindFrom(_, _, _)
FindFrom(s, a, i) == IF i > Len(s) THEN 0
                     ELSE IF s[i] = a THEN i
                     ELSE FindFrom(s, a, i + 1)
Find(s, a) == FindFrom(s, a, 1)

\* s.split(sep, maxsplit) for a one-atom separator; maxsplit < 0 means no limit.
RECURSIVE SplitMax(_, _, _)
SplitMax(s, sep, maxsplit) ==
    LET i == Find(s, sep) IN
    IF maxsplit = 0 \/ i = 0 THEN <<s>>
    ELSE <<SubSeq(s, 1, i - 1)>> \o SplitMax(SubSeq(s, i + 1, Len(s)), sep, maxsplit - 1)

Split(s, sep) == SplitMax(s, sep, -1)

\* s.split(): split on runs of whitespace, dropping empty fields.
RECURSIVE SplitWs(_, _)
SplitWs(s, cur) ==
    IF s = <<>> THEN (IF cur = <<>> THEN <<>> ELSE <<cur>>)
    ELSE IF IsSpace(Head(s))
         THEN (IF cur = <<>> THEN <<>> ELSE <<cur>>) \o SplitWs(Tail(s), <<>>)
         ELSE SplitWs(Tail(s), Append(cur, Head(s)))
Fields(s) == SplitWs(s, <<>>)

\* sep.join(list)
RECURSIVE Join(_, _)
Join(sep, list) ==
    IF list = <<>> THEN <<>>
    ELSE IF Len(list) = 1 THEN list[1]
    ELSE list[1] \o sep \o Join(sep, Tail(list))

\* s.endswith(suffix)
EndsWith(s, suffix) ==
    /\ Len(s) >= Len(suffix)
    /\ SubSeq(s, Len(s) - Len(suffix) + 1, Len(s)) = suffix

\* s.splitlines()
RECURSIVE SplitLines(_)
SplitLines(s) ==
    LET i == Find(s, "\n") IN
    IF s = <<>> THEN <<>>
    ELSE IF i = 0 THEN <<s>>
    ELSE <<SubSeq(s, 1, i - 1)>> \o SplitLines(SubSeq(s, i + 1, Len(s)))

(***************************************************************************)
(* build_netplan_yaml                                                      *)
(***************************************************************************)
\* build_netplan_yaml emitting the DHCP block after the static block.
build_netplan_yaml_dhcp_last(static_interface, p_address, p_gateway, p_dns_list, dhcp_interface) ==
    LET dns_yaml == Join(<<",", " ">>, p_dns_list)
        head == << <<"network:">>,
                   <<"  ", "version: 2">>,
                   <<"  ", "renderer: networkd">>,
                   <<"  ", "ethernets:">> >>
        dhcp == IF Truthy(dhcp_interface)
                THEN << <<"    ">> \o dhcp_interface \o <<":">>,
                        <<"      ", "dhcp4: true">> >>
                ELSE << >>
        static == << <<"    ">> \o static_interface \o <<":">>,
                     <<"      ", "addresses: [">> \o p_address \o <<"]">>,
                     <<"      ", "routes:">>,
                     <<"        ", "- to: 0.0.0.0/0">>,
                     <<"          ", "via: ">> \o p_gateway,
                     <<"      ", "nameservers:">>,
                     <<"        ", "addresses: [">> \o dns_yaml \o <<"]">> >>
        yaml_lines == head \o static \o dhcp
    IN Join(<<"\n">>, yaml_lines) \o <<"\n">>

build_netplan_yaml(static_interface, p_address, p_gateway, p_dns_list, dhcp_interface) ==
    LET dns_yaml == Join(<<",", " ">>, p_dns_list)
        head == << <<"network:">>,
                   <<"  ", "version: 2">>,
                   <<"  ", "renderer: networkd">>,
                   <<"  ", "ethernets:">> >>
        dhcp == IF Truthy(dhcp_interface)
                THEN << <<"    ">> \o dhcp_interface \o <<":">>,
                        <<"      ", "dhcp4: true">> >>
                ELSE << >>
        static == << <<"    ">> \o static_interface \o <<":">>,
                     <<"      ", "addresses: [">> \o p_address \o <<"]">>,
                     <<"      ", "routes:">>,
                     <<"        ", "- to: 0.0.0.0/0">>,
                     <<"          ", "via: ">> \o p_gateway,
                     <<"      ", "nameservers:">>,
                     <<"        ", "addresses: [">> \o dns_yaml \o <<"]">> >>
        yaml_lines == head \o dhcp \o static
    IN Join(<<"\n">>, yaml_lines) \o <<"\n">>

(***************************************************************************)
(* get_interfaces                                                          *)
(***************************************************************************)
\* link_state looking for UP anywhere in the line instead of in the flag list.
link_state_any_up(rest) ==
    IF Contains(rest, "UP") THEN <<"UP">> ELSE <<"DOWN">>

\* State of one `ip -o link show` line: lines 76-80.
link_state(rest) ==
    IF Contains(rest, "<") /\ Contains(rest, ">")
    THEN LET flags == Split(SplitMax(SplitMax(rest, "<", 1)[2], ">", 1)[1], ",")
         IN IF \E i \in 1..Len(flags) : flags[i] = <<"UP">> THEN <<"UP">> ELSE <<"DOWN">>
    ELSE <<"DOWN">>

\* MAC of one `ip -o link show` line: lines 82-87.
RECURSIVE mac_from(_, _)
mac_from(tokens, i) ==
    IF i > Len(tokens) THEN None
    ELSE IF tokens[i] = <<"link/ether">> /\ i + 1 <= Len(tokens) THEN tokens[i + 1]
    ELSE mac_from(tokens, i + 1)
link_mac(rest) == mac_from(Fields(rest), 1)

\* First loop of get_interfaces over the lines of the link query.
RECURSIVE link_pass(_, _)
link_pass(lines, ifs) ==
    IF lines = <<>> THEN ifs
    ELSE LET parts == SplitMax(Head(lines), ":", 2) IN
         IF Len(parts) < 3 THEN link_pass(Tail(lines), ifs)
         ELSE LET name == Strip(parts[2])
                  rest == parts[3]
              IN link_pass(Tail(lines),
                           Put(ifs, name, [state |-> link_state(rest),
                                           mac |-> link_mac(rest),
                                           ips |-> <<>>]))

\* Second loop of get_interfaces over the lines of the address query.
RECURSIVE addr_pass(_, _)
addr_pass(lines, ifs) ==
    IF lines = <<>> THEN ifs
    ELSE LET parts == Fields(Head(lines)) IN
         IF Len(parts) < 4 THEN addr_pass(Tail(lines), ifs)
         ELSE LET name == parts[2]
                  family == parts[3]
                  addr == parts[4]
              IN IF family = <<"inet">>
                 THEN LET known == IF name \in DOMAIN ifs THEN ifs
                                   ELSE Put(ifs, name, [state |-> <<"UNKNOWN">>,
                                                        mac |-> None,
                                                        ips |-> <<>>])
                      IN addr_pass(Tail(lines),
                                   [known EXCEPT ![name].ips = Append(@, addr)])
                 ELSE addr_pass(Tail(lines), ifs)

NoInterfaces == [n \in {} |-> 0]

get_interfaces(link_out, addr_out) ==
    addr_pass(SplitLines(addr_out), link_pass(SplitLines(link_out), NoInterfaces))

(***************************************************************************)
(* choose_interface                                                        *)
(***************************************************************************)
\* Code-point order of the atoms that occur in interface names.
AtomOrder == <<"@", "ens33", "ens36", "eth0", "if5", "lo">>
AtomRank(a) == IF \E i \in 1..Len(AtomOrder) : AtomOrder[i] = a
               THEN CHOOSE i \in 1..Len(AtomOrder) : AtomOrder[i] = a
               ELSE 0

\* a < b on strings
RECURSIVE StrLess(_, _)
StrLess(a, b) ==
    IF b = <<>> THEN FALSE
    ELSE IF a = <<>> THEN TRUE
    ELSE IF AtomRank(Head(a)) # AtomRank(Head(b)) THEN AtomRank(Head(a)) < AtomRank(Head(b))
    ELSE StrLess(Tail(a), Tail(b))

\* sorted(S)
RECURSIVE Sorted(_)
Sorted(S) ==
    IF S = {} THEN <<>>
    ELSE LET m == CHOOSE x \in S : \A y \in S \ {x} : StrLess(x, y)
         IN <<m>> \o Sorted(S \ {m})

Digits == <<"0", "1", "2", "3", "4", "5", "6", "7", "8", "9">>
IsDigitAtom(a) == \E i \in 1..10 : Digits[i] = a
DigitVal(a) == (CHOOSE i \in 1..10 : Digits[i] = a) - 1

\* str.isdigit()
IsDigit(s) == s # <<>> /\ \A i \in 1..Len(s) : IsDigitAtom(s[i])

\* int(s) for a string of digits
RECURSIVE ToInt(_)
ToInt(s) == IF s = <<>> THEN 0
            ELSE 10 * ToInt(SubSeq(s, 1, Len(s) - 1)) + DigitVal(s[Len(s)])

\* names = sorted(interfaces.keys())
choose_names(ifs) == Sorted(DOMAIN ifs)

\* One pass of the `while True` loop on the operator's raw response:
\* either the function returns a value or it prompts again.
choose_interface(names, p_allow_empty, raw) ==
    LET c == Strip(raw) IN
    IF c = <<>> /\ p_allow_empty
    THEN [returned |-> TRUE, value |-> None]
    ELSE IF IsDigit(c) /\ 1 <= ToInt(c) /\ ToInt(c) <= Len(names)
         THEN [returned |-> TRUE, value |-> names[ToInt(c)]]
         ELSE [returned |-> FALSE, value |-> None]

(***************************************************************************)
(* backup_netplan, write_netplan_file                                      *)
(***************************************************************************)
NoFiles == [n \in {} |-> 0]

\* os.listdir(netplan_dir): regular files and subdirectories
listdir(p_files, p_dirs) == DOMAIN p_files \cup DOMAIN p_dirs

\* is_yaml recognising only the .yaml suffix.
is_yaml_only_yaml(fname) == EndsWith(fname, <<".yaml">>)

\* fname.endswith((".yaml", ".yml"))
is_yaml(fname) == EndsWith(fname, <<".yaml">>) \/ EndsWith(fname, <<".yml">>)

backup_dir_name(timestamp) == <<"backup-", timestamp>>

\* backup_netplan creating the directory and copying nothing.
backup_netplan_no_copy(p_files, p_dirs, timestamp) ==
    LET bdir == backup_dir_name(timestamp)
    IN IF bdir \in DOMAIN p_dirs THEN p_dirs ELSE Put(p_dirs, bdir, NoFiles)

\* The subdirectories of netplan_dir after backup_netplan ran at `timestamp`.
backup_netplan(p_files, p_dirs, timestamp) ==
    LET bdir == backup_dir_name(timestamp)
        made == IF bdir \in DOMAIN p_dirs THEN p_dirs ELSE Put(p_dirs, bdir, NoFiles)
        copied == {f \in listdir(p_files, made) : is_yaml(f) /\ f \in DOMAIN p_files}
        old == made[bdir]
    IN [made EXCEPT ![bdir] = [f \in DOMAIN old \cup copied |->
                                 IF f \in copied THEN p_files[f] ELSE old[f]]]

\* The files of netplan_dir after write_netplan_file.
write_netplan_file(content, p_files, output_file) ==
    Put(p_files, output_file, [content |-> content, mode |-> "0600"])

(***************************************************************************)
(* Inputs                                                                  *)
(***************************************************************************)
DEFAULT_OUTPUT_FILE == <<"01-python-netplan", ".yaml">>

ens33 == <<"ens33">>
ens36 == <<"ens36">>
lo == <<"lo">>
Mac1 == <<"aa", ":", "bb", ":", "cc", ":", "dd", ":", "ee", ":", "ff">>
Cidr1 == <<"10.0.0.5", "/", "24">>
Cidr2 == <<"192.168.1.67", "/", "24">>
Gw1 == <<"10.0.0.1">>
Dns1 == <<"8.8.8.8">>
Dns2 == <<"8.8.4.4">>

\* One line of `ip -o link show` for an interface; flags = NoneList when the
\* line carries no bracketed flag list, mac = None when it has no link/ether.
LinkLine(idx, name, flags, oper, mac) ==
    <<idx, ":", " ">> \o name \o <<":", " ">>
    \o (IF flags = NoneList THEN <<>> ELSE <<"<">> \o Join(<<",">>, flags) \o <<">", " ">>)
    \o <<"mtu", " ", "1500", " ", "state", " ", oper, " ", "qlen", " ", "1000", "\\", " ", " ">>
    \o (IF mac = None THEN <<"link/loopback", " ", "00", ":", "00">>
        ELSE <<"link/ether", " ">> \o mac \o <<" ", "brd", " ", "ff", ":", "ff">>)

\* One line of `ip -o addr show`.
AddrLine(idx, name, family, cidr) ==
    <<idx, ":", " ">> \o name \o <<" ", " ", " ", " ", family, " ">> \o cidr
    \o <<" ", "scope", " ", "global", " ">> \o name

\* The text of a command's output: its lines, each ended by a newline.
RECURSIVE Output(_)
Output(lines) == IF lines = <<>> THEN <<>> ELSE Head(lines) \o <<"\n">> \o Output(Tail(lines))

FlagsUp == << <<"BROADCAST">>, <<"MULTICAST">>, <<"UP">>, <<"LOWER_UP">> >>
FlagsDown == << <<"NO-CARRIER">>, <<"BROADCAST">>, <<"LOWER_UP">> >>

\* What the operator's host can answer to the two queries of a run of main.
MainLinkOutputs ==
    { Output(<<>>),
      Output(<< LinkLine("2", ens33, FlagsUp, "UP", Mac1) >>),
      Output(<< LinkLine("3", ens36, FlagsDown, "DOWN", Mac1),
                LinkLine("2", ens33, FlagsUp, "UP", Mac1) >>) }
MainAddrOutputs ==
    { Output(<<>>),
      Output(<< AddrLine("2", ens33, "inet", Cidr2) >>) }

ArgsSet ==
    [ static_interface : {None, ens36},
      dhcp_interface   : {None, ens33, ens36},
      address          : {None, Cidr1, <<"10.0.0.5">>},
      gateway          : {None, Gw1},
      dns              : {NoneList, <<Dns1, Dns2>>},
      output           : {DEFAULT_OUTPUT_FILE, <<"c", ".txt">>},
      apply            : BOOLEAN,
      no_backup        : BOOLEAN ]

\* The namespace before parse_args has run: argparse's defaults.
NoArgs ==
    [ static_interface |-> None, dhcp_interface |-> None, address |-> None,
      gateway |-> None, dns |-> NoneList, output |-> DEFAULT_OUTPUT_FILE,
      apply |-> FALSE, no_backup |-> FALSE ]

\* Responses the operator types at the selection prompt of a run of main.
MainChoices == { <<>>, <<"1">>, <<" ", "2">>, <<"x">> }
AddressInputs == { <<>>, <<" ">> \o Cidr1, <<"10.0.0.5">> }
GatewayInputs == { <<>>, Gw1 \o <<" ">> }
DnsInputs == { <<>>, <<",", " ">>, Dns1 \o <<",", " ">> \o Dns2 }
ConfirmInputs == { <<>>, <<"y">>, <<" ", "Y", " ">>, <<"n">>, <<"y", "e", "s">> }
ApplyOutcomes == { "not_found", "failed", "ok" }

OldFile(text) == [content |-> <<text>>, mode |-> "0644"]
Now == "20260101-000001"
Earlier == "20260101-000000"

\* Contents of the netplan directory when a run starts.
InitialFiles ==
    { NoFiles,
      (<<"a", ".yaml">> :> OldFile("a")) @@ (<<"b", ".yml">> :> OldFile("b"))
          @@ (<<"c", ".txt">> :> OldFile("c")),
      (DEFAULT_OUTPUT_FILE :> OldFile("prev")) @@ (<<"a", ".yaml">> :> OldFile("a")) }
InitialDirs ==
    { NoFiles,
      (backup_dir_name(Earlier) :> (<<"a", ".yaml">> :> OldFile("a0"))) }

(***************************************************************************)
(* main                                                                    *)
(***************************************************************************)
Running == -1

MsgRoot == "[-] Please run this script with sudo or as root."
MsgStatic == "[-] Static interface is required."
MsgAddress == "[-] Address with CIDR is required, e.g. 212.57.15.138/24."
MsgGateway == "[-] Gateway is required."
MsgDns == "[-] At least one DNS server is required."

\* have_cli_static computed without looking at the dns flag.
have_cli_static_without_dns ==
    /\ Truthy(args.static_interface) /\ Truthy(args.address)
    /\ Truthy(args.gateway)

\* line 342
have_cli_static ==
    /\ Truthy(args.static_interface) /\ Truthy(args.address)
    /\ Truthy(args.gateway) /\ TruthyList(args.dns)

\* line 330
RECURSIVE strip_nonempty(_)
strip_nonempty(parts) ==
    IF parts = <<>> THEN <<>>
    ELSE (IF Strip(Head(parts)) # <<>> THEN <<Strip(Head(parts))>> ELSE <<>>)
         \o strip_nonempty(Tail(parts))
parse_dns(dns_raw) == strip_nonempty(Split(dns_raw, ","))

Init ==
    /\ pc = "ensure_root"
    /\ host_links = <<>> /\ host_addrs = <<>>
    /\ euid \in {0, 1000}
    /\ args = NoArgs
    /\ link_output = Unset /\ addr_output = Unset
    /\ interfaces = NoInterfaces
    /\ allow_empty = FALSE /\ typed = Unset /\ chosen = Unset
    /\ dhcp_if = Unset /\ static_if = Unset /\ address = Unset
    /\ gateway = Unset /\ dns_list = <<Unset>>
    /\ files \in InitialFiles /\ dirs \in InitialDirs
    /\ backup_dir = Unset /\ yaml_content = Unset
    /\ exit_status = Running /\ message = Unset
    /\ confirm = Unset /\ apply_outcome = "none"
    /\ backups = 0 /\ writes = 0 /\ applies = 0
    /\ prompted = FALSE /\ asked = FALSE

\* raise SystemExit(msg): message on stderr, exit status 1.
SystemExit(msg) ==
    /\ pc' = "exited"
    /\ exit_status' = 1
    /\ message' = <<msg>>

\* ensure_root(), line 339
EnsureRoot ==
    /\ pc = "ensure_root"
    /\ IF euid # 0
       THEN SystemExit(MsgRoot)
       ELSE pc' = "parse_args" /\ UNCHANGED <<exit_status, message>>
    /\ UNCHANGED <<host_links, host_addrs, euid, args, link_output, addr_output, interfaces,
                   allow_empty, typed, chosen, dhcp_if, static_if, address,
                   gateway, dns_list, files, dirs, backup_dir, yaml_content,
                   confirm, apply_outcome, backups, writes, applies, prompted, asked>>

\* parse_args(), line 340
ParseArgs ==
    /\ pc = "parse_args"
    /\ args' \in ArgsSet
    /\ pc' = "mode"
    /\ UNCHANGED <<host_links, host_addrs, euid, link_output, addr_output, interfaces,
                   allow_empty, typed, chosen, dhcp_if, static_if, address,
                   gateway, dns_list, files, dirs, backup_dir, yaml_content,
                   exit_status, message, confirm, apply_outcome,
                   backups, writes, applies, prompted, asked>>

\* Non-interactive branch, lines 347-352
CliParams ==
    /\ pc = "mode"
    /\ have_cli_static
    /\ dhcp_if' = OrNone(args.dhcp_interface)
    /\ static_if' = args.static_interface
    /\ address' = args.address
    /\ gateway' = args.gateway
    /\ dns_list' = args.dns
    /\ pc' = "validate"
    /\ UNCHANGED <<host_links, host_addrs, euid, args, link_output, addr_output, interfaces,
                   allow_empty, typed, chosen, files, dirs, backup_dir,
                   yaml_content, exit_status, message, confirm, apply_outcome,
                   backups, writes, applies, prompted, asked>>

\* interactive_input() up to get_interfaces(), lines 344-346, 316-318:
\* either query may fail, and run_cmd then raises RuntimeError.
GetInterfaces ==
    /\ pc = "mode"
    /\ ~have_cli_static
    /\ \/ /\ link_output' \in MainLinkOutputs
          /\ addr_output' \in MainAddrOutputs
          /\ interfaces' = get_interfaces(link_output', addr_output')
          /\ pc' = "choose_dhcp"
          /\ UNCHANGED <<exit_status, message>>
       \/ /\ pc' = "exited"
          /\ exit_status' = 1
          /\ message' = <<"RuntimeError">>
          /\ UNCHANGED <<link_output, addr_output, interfaces>>
    /\ UNCHANGED <<host_links, host_addrs, euid, args, allow_empty, typed, chosen, dhcp_if, static_if,
                   address, gateway, dns_list, files, dirs, backup_dir,
                   yaml_content, confirm, apply_outcome,
                   backups, writes, applies, prompted, asked>>

\* choose_interface(interfaces, "DHCP (optional)", allow_empty=True), line 320
ChooseDhcp ==
    /\ pc = "choose_dhcp"
    /\ allow_empty' = TRUE
    /\ IF choose_names(interfaces) = <<>>
       THEN /\ dhcp_if' = None
            /\ pc' = "choose_static"
            /\ UNCHANGED prompted
       ELSE \E raw \in MainChoices :
              LET r == choose_interface(choose_names(interfaces), TRUE, raw) IN
              /\ prompted' = TRUE
              /\ IF r.returned
                 THEN dhcp_if' = r.value /\ pc' = "choose_static"
                 ELSE UNCHANGED <<dhcp_if, pc>>
    /\ UNCHANGED <<host_links, host_addrs, euid, args, link_output, addr_output, interfaces, typed, chosen,
                   static_if, address, gateway, dns_list, files, dirs,
                   backup_dir, yaml_content, exit_status, message, confirm,
                   apply_outcome, backups, writes, applies, asked>>

\* choose_interface(interfaces, "STATIC", allow_empty=False), line 321
ChooseStatic ==
    /\ pc = "choose_static"
    /\ allow_empty' = FALSE
    /\ IF choose_names(interfaces) = <<>>
       THEN /\ static_if' = None
            /\ pc' = "same_check"
            /\ UNCHANGED prompted
       ELSE \E raw \in MainChoices :
              LET r == choose_interface(choose_names(interfaces), FALSE, raw) IN
              /\ prompted' = TRUE
              /\ IF r.returned
                 THEN static_if' = r.value /\ pc' = "same_check"
                 ELSE UNCHANGED <<static_if, pc>>
    /\ UNCHANGED <<host_links, host_addrs, euid, args, link_output, addr_output, interfaces, typed, chosen,
                   dhcp_if, address, gateway, dns_list, files, dirs,
                   backup_dir, yaml_content, exit_status, message, confirm,
                   apply_outcome, backups, writes, applies, asked>>

\* lines 323-325
SameInterfaceCheck ==
    /\ pc = "same_check"
    /\ dhcp_if' = IF Truthy(dhcp_if) /\ Truthy(static_if) /\ dhcp_if = static_if
                  THEN None ELSE dhcp_if
    /\ pc' = "params"
    /\ UNCHANGED <<host_links, host_addrs, euid, args, link_output, addr_output, interfaces,
                   allow_empty, typed, chosen, static_if, address, gateway,
                   dns_list, files, dirs, backup_dir, yaml_content,
                   exit_status, message, confirm, apply_outcome,
                   backups, writes, applies, prompted, asked>>

\* The three input() prompts of interactive_input, lines 327-332
InteractiveParams ==
    /\ pc = "params"
    /\ \E a \in AddressInputs, g \in GatewayInputs, d \in DnsInputs :
         /\ address' = Strip(a)
         /\ gateway' = Strip(g)
         /\ dns_list' = parse_dns(Strip(d))
    /\ prompted' = TRUE
    /\ pc' = "validate"
    /\ UNCHANGED <<host_links, host_addrs, euid, args, link_output, addr_output, interfaces,
                   allow_empty, typed, chosen, dhcp_if, static_if, files, dirs,
                   backup_dir, yaml_content, exit_status, message, confirm,
                   apply_outcome, backups, writes, applies, asked>>

\* The checks of lines 355-362 without the test for the CIDR marker.
validation_error_no_cidr_check(p_static_if, p_address, p_gateway, p_dns_list) ==
    IF ~Truthy(p_static_if) THEN MsgStatic
    ELSE IF ~Truthy(p_address) THEN MsgAddress
    ELSE IF ~Truthy(p_gateway) THEN MsgGateway
    ELSE IF ~TruthyList(p_dns_list) THEN MsgDns
    ELSE ""

\* The checks of lines 355-362: the message of the first one that fails, "" when none does.
validation_error(p_static_if, p_address, p_gateway, p_dns_list) ==
    IF ~Truthy(p_static_if) THEN MsgStatic
    ELSE IF ~Truthy(p_address) \/ ~Contains(p_address, "/") THEN MsgAddress
    ELSE IF ~Truthy(p_gateway) THEN MsgGateway
    ELSE IF ~TruthyList(p_dns_list) THEN MsgDns
    ELSE ""

\* Basic validation, lines 355-362
Validate ==
    /\ pc = "validate"
    /\ LET err == validation_error(static_if, address, gateway, dns_list) IN
       IF err # ""
       THEN SystemExit(err)
       ELSE pc' = "backup" /\ UNCHANGED <<exit_status, message>>
    /\ UNCHANGED <<host_links, host_addrs, euid, args, link_output, addr_output, interfaces,
                   allow_empty, typed, chosen, dhcp_if, static_if, address,
                   gateway, dns_list, files, dirs, backup_dir, yaml_content,
                   confirm, apply_outcome, backups, writes, applies, prompted, asked>>

\* Backup (unless disabled), lines 365-368
Backup ==
    /\ pc = "backup"
    /\ IF ~args.no_backup
       THEN /\ dirs' = backup_netplan(files, dirs, Now)
            /\ backup_dir' = backup_dir_name(Now)
            /\ backups' = backups + 1
       ELSE UNCHANGED <<dirs, backup_dir, backups>>
    /\ pc' = "build"
    /\ UNCHANGED <<host_links, host_addrs, euid, args, link_output, addr_output, interfaces,
                   allow_empty, typed, chosen, dhcp_if, static_if, address,
                   gateway, dns_list, files, yaml_content, exit_status, message,
                   confirm, apply_outcome, writes, applies, prompted, asked>>

\* Build config, lines 371-380
Build ==
    /\ pc = "build"
    /\ yaml_content' = build_netplan_yaml(static_if, address, gateway, dns_list, dhcp_if)
    /\ pc' = "write"
    /\ UNCHANGED <<host_links, host_addrs, euid, args, link_output, addr_output, interfaces,
                   allow_empty, typed, chosen, dhcp_if, static_if, address,
                   gateway, dns_list, files, dirs, backup_dir, exit_status,
                   message, confirm, apply_outcome, backups, writes, applies,
                   prompted, asked>>

\* write_netplan_file(...), line 382
Write ==
    /\ pc = "write"
    /\ files' = write_netplan_file(yaml_content, files, args.output)
    /\ writes' = writes + 1
    /\ pc' = "apply"
    /\ UNCHANGED <<host_links, host_addrs, euid, args, link_output, addr_output, interfaces,
                   allow_empty, typed, chosen, dhcp_if, static_if, address,
                   gateway, dns_list, dirs, backup_dir, yaml_content,
                   exit_status, message, confirm, apply_outcome, backups,
                   applies, prompted, asked>>

\* apply_netplan() without the handler for CalledProcessError.
apply_raises_on_failure(outcome) == outcome = "failed"

\* Whether apply_netplan() lets an exception escape for an outcome of the
\* command: FileNotFoundError and CalledProcessError are both caught.
apply_raises(outcome) == FALSE

\* apply_netplan(), lines 240-249, and what follows it in main: nothing,
\* so the process ends with status 0 unless an exception escaped.
apply_netplan ==
    /\ apply_outcome' \in ApplyOutcomes
    /\ applies' = applies + 1
    /\ exit_status' = IF apply_raises(apply_outcome') THEN 1 ELSE 0

\* The test of line 385 on the --apply flag alone.
auto_apply_flag_only == args.apply

\* line 385
auto_apply == args.apply /\ have_cli_static

\* lines 385-386, then the normal end of main
AutoApply ==
    /\ pc = "apply"
    /\ auto_apply
    /\ apply_netplan
    /\ pc' = "exited"
    /\ UNCHANGED <<host_links, host_addrs, euid, args, link_output, addr_output, interfaces,
                   allow_empty, typed, chosen, dhcp_if, static_if, address,
                   gateway, dns_list, files, dirs, backup_dir, yaml_content,
                   message, confirm, backups, writes, prompted, asked>>

\* lines 387-392, then the normal end of main
AskApply ==
    /\ pc = "apply"
    /\ ~auto_apply
    /\ \E raw \in ConfirmInputs :
         /\ typed' = raw
         /\ confirm' = Lower(Strip(raw))
         /\ IF confirm' = <<"y">>
            THEN apply_netplan
            ELSE exit_status' = 0 /\ UNCHANGED <<apply_outcome, applies>>
    /\ asked' = TRUE
    /\ prompted' = TRUE
    /\ pc' = "exited"
    /\ UNCHANGED <<host_links, host_addrs, euid, args, link_output, addr_output, interfaces,
                   allow_empty, chosen, dhcp_if, static_if, address,
                   gateway, dns_list, files, dirs, backup_dir, yaml_content,
                   message, backups, writes>>

Next ==
    \/ EnsureRoot
    \/ ParseArgs
    \/ CliParams
    \/ GetInterfaces
    \/ ChooseDhcp
    \/ ChooseStatic
    \/ SameInterfaceCheck
    \/ InteractiveParams
    \/ Validate
    \/ Backup
    \/ Build
    \/ Write
    \/ AutoApply
    \/ AskApply

Spec == Init /\ [][Next]_vars

(***************************************************************************)
(* Properties of a run of main                                             *)
(***************************************************************************)
\* The names of the entries under `ethernets:` of a document, in order:
\* the lines indented by exactly four spaces, without indent and colon.
RECURSIVE entry_names(_)
entry_names(lines) ==
    IF lines = <<>> THEN <<>>
    ELSE LET l == Head(lines) IN
         (IF Len(l) >= 2 /\ l[1] = "    " /\ l[Len(l)] = ":"
          THEN <<SubSeq(l, 2, Len(l) - 1)>> ELSE <<>>) \o entry_names(Tail(lines))
EthernetEntries(doc) == entry_names(SplitLines(doc))

NoDuplicates(seq) == \A i, j \in 1..Len(seq) : seq[i] = seq[j] => i = j

Written == writes > 0 /\ args.output \in DOMAIN files

\* C1 (as claimed): in every run that reaches rendering, a DHCP interface equal
\* to the static interface has been cleared to None, so the rendered and the
\* written document name no interface twice under ethernets.
C1_SameInterfaceCleared ==
    /\ pc = "build" => ~(Truthy(dhcp_if) /\ dhcp_if = static_if)
    /\ yaml_content # Unset => NoDuplicates(EthernetEntries(yaml_content))
    /\ Written => NoDuplicates(EthernetEntries(files[args.output].content))

\* The invocation of C2: static interface, address and gateway given as flags, dns missing.
MissingDns ==
    /\ Truthy(args.static_interface) /\ Truthy(args.address) /\ Truthy(args.gateway)
    /\ ~TruthyList(args.dns)

FsUntouched ==
    /\ backups = 0 /\ writes = 0 /\ backup_dir = Unset
    /\ files \in InitialFiles /\ dirs \in InitialDirs
    /\ \A f \in DOMAIN files : files[f].mode = "0644"

\* C2 (as claimed): an invocation missing only the dns flag terminates
\* immediately with a non-zero status and a descriptive message, without
\* prompting the operator and without touching the filesystem.
C2_MissingDnsExitsImmediately ==
    MissingDns /\ pc # "mode" =>
        /\ pc = "exited" /\ exit_status = 1 /\ message = <<MsgDns>>
        /\ ~prompted /\ FsUntouched

\* C2 (amended): an invocation missing only the dns flag takes the interactive
\* path: it never reaches validation, backup or write without having run the
\* interface query and prompted the operator, and whenever it does end with a
\* non-zero status the filesystem is untouched.
C2_MissingDnsGoesInteractive ==
    MissingDns =>
        /\ pc \in {"validate", "backup", "build", "write", "apply"} =>
               link_output # Unset /\ prompted
        /\ pc = "exited" /\ exit_status = 0 => link_output # Unset /\ prompted
        /\ pc = "exited" /\ exit_status # 0 =>
               /\ FsUntouched
               /\ message \in {<<"RuntimeError">>, <<MsgStatic>>, <<MsgAddress>>,
                                <<MsgGateway>>, <<MsgDns>>}
               /\ message # <<"RuntimeError">> => prompted

C2_Witness ==
    /\ MissingDns /\ pc = "exited" /\ exit_status = 0 /\ prompted /\ writes = 1

\* C3: a run that ends with a privilege or validation error has not touched
\* the filesystem, and backup, renderer and writer are only reached with all
\* four required fields non-empty and an address that contains "/".
C3_ErrorsBeforeMutation ==
    /\ pc = "exited" /\ message \in {<<MsgRoot>>, <<MsgStatic>>, <<MsgAddress>>,
                                       <<MsgGateway>>, <<MsgDns>>}
          => exit_status = 1 /\ FsUntouched /\ yaml_content = Unset
    /\ pc \in {"backup", "build", "write"} \/ ~FsUntouched =>
          /\ static_if # None /\ static_if # <<>>
          /\ address # None /\ \E i \in 1..Len(address) : address[i] = "/"
          /\ gateway # None /\ gateway # <<>>
          /\ dns_list # NoneList /\ Len(dns_list) >= 1

C3_Witness ==
    /\ pc = "exited" /\ exit_status = 1 /\ message = <<MsgAddress>>
    /\ address = <<"10.0.0.5">> /\ DOMAIN files # {} /\ ~args.no_backup

\* C5: the apply step runs at most once per run, and whatever its outcome it
\* leaves the written file and the backups as they are and the process ends
\* normally with status 0.
C5_ApplyOnceNonFatal ==
    /\ [](applies <= 1)
    /\ [][applies' > applies =>
            /\ files' = files /\ dirs' = dirs
            /\ files[args.output].content = yaml_content
            /\ pc' = "exited" /\ exit_status' = 0]_vars
    /\ [](pc = "exited" /\ applies = 1 =>
            exit_status = 0 /\ files[args.output].content = yaml_content)

C5_Witness ==
    /\ pc = "exited" /\ applies = 1 /\ apply_outcome = "failed" /\ exit_status = 0
    /\ files[args.output].content = yaml_content

\* C9: the stages are ordered backup, write, apply: at most one write, at most
\* one backup and only before the write, no apply before the write, no backup
\* directory with --no-backup; and without --no-backup an overwritten target
\* whose name ends in .yaml or .yml already has a copy in the backup directory.
C9_StageOrder ==
    /\ [](writes <= 1 /\ backups <= 1)
    /\ [][backups' > backups => writes = 0 /\ applies = 0]_vars
    /\ [][writes' > writes => applies = 0]_vars
    /\ [][applies' > applies => writes = 1]_vars
    /\ [](args.no_backup =>
            backups = 0 /\ backup_dir = Unset /\ dirs \in InitialDirs)
    /\ [][/\ writes' > writes /\ ~args.no_backup /\ args.output \in DOMAIN files
          /\ args.output[Len(args.output)] \in {".yaml", ".yml"}
          => /\ backup_dir \in DOMAIN dirs
             /\ args.output \in DOMAIN dirs[backup_dir]
             /\ dirs[backup_dir][args.output] = files[args.output]
             /\ dirs'[backup_dir][args.output] = files[args.output]]_vars

C9_Witness ==
    /\ pc = "exited" /\ writes = 1 /\ backups = 1 /\ applies = 1
    /\ args.output = DEFAULT_OUTPUT_FILE
    /\ backup_dir \in DOMAIN dirs /\ args.output \in DOMAIN dirs[backup_dir]
    /\ dirs[backup_dir][args.output] = OldFile("prev")
    /\ files[args.output].content = yaml_content

\* The operator's answer is "y" up to case and surrounding blanks.
AnsweredYes ==
    \E i \in 1..Len(typed) :
        /\ typed[i] \in {"y", "Y"}
        /\ \A j \in 1..Len(typed) : j # i => typed[j] = " "

AllFourFlags ==
    /\ args.static_interface # None /\ args.address # None
    /\ args.gateway # None /\ args.dns # NoneList

\* C10: apply runs without asking only with --apply and all four of static
\* interface, address, gateway and dns given as flags; every other run that
\* gets past the write asks the operator, and applies iff the answer is "y".
C10_ApplyDecision ==
    /\ [][applies' > applies /\ ~asked' => args.apply /\ AllFourFlags]_vars
    /\ [](pc = "exited" /\ writes = 1 =>
            IF args.apply /\ AllFourFlags
            THEN ~asked /\ applies = 1
            ELSE asked /\ (applies = 1 <=> AnsweredYes))

C10_Witness ==
    /\ pc = "exited" /\ args.apply /\ ~AllFourFlags /\ asked
    /\ typed = <<" ", "Y", " ">> /\ applies = 1

(***************************************************************************)
(* The functions on their own: each specification below draws the inputs   *)
(* of one function from bounded sets and applies it.                       *)
(***************************************************************************)
hostVars == <<host_links, host_addrs, link_output, addr_output>>
chooseVars == <<allow_empty, typed, chosen>>
paramVars == <<dhcp_if, static_if, address, gateway, dns_list>>
fsVars == <<files, dirs, backup_dir>>
runVars == <<euid, args, exit_status, message, confirm, apply_outcome,
             backups, writes, applies, prompted, asked>>

HostIdle ==
    /\ host_links = <<>> /\ host_addrs = <<>>
    /\ link_output = Unset /\ addr_output = Unset
ChooseIdle == allow_empty = FALSE /\ typed = Unset /\ chosen = Unset
ParamIdle ==
    /\ dhcp_if = Unset /\ static_if = Unset /\ address = Unset
    /\ gateway = Unset /\ dns_list = <<Unset>>
FsIdle == files = NoFiles /\ dirs = NoFiles /\ backup_dir = Unset
RunIdle ==
    /\ euid = 0 /\ args = NoArgs /\ exit_status = Running /\ message = Unset
    /\ confirm = Unset /\ apply_outcome = "none"
    /\ backups = 0 /\ writes = 0 /\ applies = 0
    /\ prompted = FALSE /\ asked = FALSE

(***************************************************************************)
(* build_netplan_yaml on valid parameters                                  *)
(***************************************************************************)
MaxDns == 2

Gw2 == <<"192.168.1.1">>
RenderNames == {ens33, ens36, lo}
DnsLists == UNION {[1..n -> {Dns1, Dns2}] : n \in 1..MaxDns}

InitRender ==
    /\ pc = "render"
    /\ static_if \in RenderNames
    /\ dhcp_if \in {None, <<>>} \cup RenderNames
    /\ address \in {Cidr1, Cidr2}
    /\ gateway \in {Gw1, Gw2}
    /\ dns_list \in DnsLists
    /\ yaml_content = Unset
    /\ interfaces = NoInterfaces
    /\ HostIdle /\ ChooseIdle /\ FsIdle /\ RunIdle

Render ==
    /\ pc = "render"
    /\ yaml_content' = build_netplan_yaml(static_if, address, gateway, dns_list, dhcp_if)
    /\ pc' = "rendered"
    /\ UNCHANGED <<hostVars, interfaces, chooseVars, paramVars, fsVars, runVars>>

NextRender == Render

SpecRender == InitRender /\ [][NextRender]_vars

\* The static block starts at line i of the document.
StaticBlockAt(lines, i) ==
    /\ i + 6 = Len(lines)
    /\ lines[i] = <<"    ">> \o static_if \o <<":">>
    /\ lines[i + 1] = <<"      ", "addresses: [">> \o address \o <<"]">>
    /\ lines[i + 2] = <<"      ", "routes:">>
    /\ lines[i + 3] = <<"        ", "- to: 0.0.0.0/0">>
    /\ lines[i + 4] = <<"          ", "via: ">> \o gateway
    /\ lines[i + 5] = <<"      ", "nameservers:">>
    /\ LET l == lines[i + 6]
           n == Len(dns_list)
       IN /\ Len(l) = 3 + (3 * n - 2)
          /\ l[1] = "        " /\ l[2] = "addresses: [" /\ l[Len(l)] = "]"
          /\ \A k \in 1..n : <<l[3 * k]>> = dns_list[k]
          /\ \A k \in 1..(n - 1) : l[3 * k + 1] = "," /\ l[3 * k + 2] = " "

HasDhcp4(lines) == \E i \in 1..Len(lines) : Contains(lines[i], "dhcp4: true")

\* C4: without a DHCP interface the document has exactly one entry under
\* ethernets, the static block, and no dhcp4 line; with a DHCP interface that
\* differs from the static one it has exactly two, the DHCP block (name line,
\* then dhcp4: true) before the static block; the static block always carries
\* the address, the default route via the gateway and the DNS entries joined
\* by ", " in their order.
C4_RenderShape ==
    pc = "rendered" =>
        LET lines == SplitLines(yaml_content)
            entries == EthernetEntries(yaml_content)
        IN /\ SubSeq(lines, 1, 4) = << <<"network:">>, <<"  ", "version: 2">>,
                                       <<"  ", "renderer: networkd">>,
                                       <<"  ", "ethernets:">> >>
           /\ yaml_content[Len(yaml_content)] = "\n"
           /\ dhcp_if \in {None, <<>>} =>
                 /\ entries = <<static_if>>
                 /\ ~HasDhcp4(lines)
                 /\ StaticBlockAt(lines, 5)
           /\ dhcp_if \notin {None, <<>>} /\ dhcp_if # static_if =>
                 /\ entries = <<dhcp_if, static_if>>
                 /\ lines[5] = <<"    ">> \o dhcp_if \o <<":">>
                 /\ lines[6] = <<"      ", "dhcp4: true">>
                 /\ StaticBlockAt(lines, 7)
           /\ dhcp_if \notin {None, <<>>} => StaticBlockAt(lines, 7)

C4_Witness ==
    /\ pc = "rendered" /\ dhcp_if = ens33 /\ static_if = ens36
    /\ dns_list = <<Dns1, Dns2>>
    /\ EthernetEntries(yaml_content) = <<ens33, ens36>>

(***************************************************************************)
(* get_interfaces on the output of the two queries                         *)
(***************************************************************************)
MaxLinkLines == 2
MaxAddrLines == 2

HostNames == {ens33, lo}

\* What the link query prints a line for: an interface (name, flag list or
\* none, MAC or none), or a line that is not of the expected form.
JunkLink == [junk |-> TRUE, name |-> lo, flags |-> NoneList, mac |-> None]
LinkDescs ==
    [junk : {FALSE}, name : HostNames, flags : {NoneList, FlagsUp, FlagsDown},
     mac : {None, Mac1}] \cup {JunkLink}

\* What the address query prints a line for.
JunkAddr == [junk |-> TRUE, name |-> lo, family |-> "inet", cidr |-> Cidr1]
AddrDescs ==
    [junk : {FALSE}, name : HostNames, family : {"inet", "inet6"},
     cidr : {Cidr1, Cidr2}] \cup {JunkAddr}

SeqsUpTo(S, n) == UNION {[1..k -> S] : k \in 0..n}

\* The kernel names every interface once.
DistinctNames(ls) ==
    \A i, j \in 1..Len(ls) :
        ~ls[i].junk /\ ~ls[j].junk /\ ls[i].name = ls[j].name => i = j

link_line(d) ==
    IF d.junk THEN <<"garbage", " ", "line">>
    ELSE LinkLine("2", d.name, d.flags, "UP", d.mac)
addr_line(d) ==
    IF d.junk THEN <<"2", ":", " ">> \o d.name
    ELSE AddrLine("2", d.name, d.family, d.cidr)

InitIfaces ==
    /\ pc = "get_interfaces"
    /\ host_links \in {ls \in SeqsUpTo(LinkDescs, MaxLinkLines) : DistinctNames(ls)}
    /\ host_addrs \in SeqsUpTo(AddrDescs, MaxAddrLines)
    /\ link_output = Unset /\ addr_output = Unset
    /\ interfaces = NoInterfaces
    /\ yaml_content = Unset
    /\ ChooseIdle /\ ParamIdle /\ FsIdle /\ RunIdle

\* get_interfaces(), lines 56-106, on the text the two commands print
GetInterfacesCall ==
    /\ pc = "get_interfaces"
    /\ link_output' = Output([i \in 1..Len(host_links) |-> link_line(host_links[i])])
    /\ addr_output' = Output([i \in 1..Len(host_addrs) |-> addr_line(host_addrs[i])])
    /\ interfaces' = get_interfaces(link_output', addr_output')
    /\ pc' = "got_interfaces"
    /\ UNCHANGED <<host_links, host_addrs, chooseVars, paramVars, fsVars,
                   yaml_content, runVars>>

NextIfaces == GetInterfacesCall

SpecIfaces == InitIfaces /\ [][NextIfaces]_vars

LinkedNames == {host_links[i].name : i \in {k \in 1..Len(host_links) : ~host_links[k].junk}}

\* The CIDRs of the inet lines of interface n, in the order of the address query.
RECURSIVE inet_of(_, _)
inet_of(n, ads) ==
    IF ads = <<>> THEN <<>>
    ELSE (IF ~Head(ads).junk /\ Head(ads).name = n /\ Head(ads).family = "inet"
          THEN <<Head(ads).cidr>> ELSE <<>>) \o inet_of(n, Tail(ads))

\* Every interface of the link query has a record with its state and MAC, and
\* every record lists the interface's inet addresses in encounter order.
LinkRecordsRight ==
    /\ \A i \in 1..Len(host_links) :
          LET d == host_links[i] IN
          ~d.junk =>
            /\ d.name \in DOMAIN interfaces
            /\ interfaces[d.name].state =
                  (IF d.flags # NoneList /\ \E k \in 1..Len(d.flags) : d.flags[k] = <<"UP">>
                   THEN <<"UP">> ELSE <<"DOWN">>)
            /\ interfaces[d.name].mac = d.mac
    /\ \A n \in DOMAIN interfaces : interfaces[n].ips = inet_of(n, host_addrs)

\* C6 (as claimed): the merge records every interface of the link query with
\* its state and MAC, appends every inet CIDR in encounter order, and records
\* every interface that appears only in the address query with state UNKNOWN
\* and no MAC.
C6_MergeByName ==
    pc = "got_interfaces" =>
        /\ LinkRecordsRight
        /\ \A j \in 1..Len(host_addrs) :
              LET d == host_addrs[j] IN
              ~d.junk /\ d.name \notin LinkedNames =>
                /\ d.name \in DOMAIN interfaces
                /\ interfaces[d.name].state = <<"UNKNOWN">>
                /\ interfaces[d.name].mac = None

\* C6 (amended): as claimed, except that an interface appearing only in the
\* address query is recorded (state UNKNOWN, no MAC) when at least one of its
\* lines is an inet line; one with no inet line gets no record.
C6_MergeByNameInet ==
    pc = "got_interfaces" =>
        /\ LinkRecordsRight
        /\ \A j \in 1..Len(host_addrs) :
              LET d == host_addrs[j] IN
              ~d.junk /\ d.name \notin LinkedNames =>
                IF inet_of(d.name, host_addrs) # <<>>
                THEN /\ d.name \in DOMAIN interfaces
                     /\ interfaces[d.name].state = <<"UNKNOWN">>
                     /\ interfaces[d.name].mac = None
                ELSE d.name \notin DOMAIN interfaces

C6_Witness ==
    /\ pc = "got_interfaces"
    /\ DOMAIN interfaces = {ens33, lo}
    /\ LinkedNames = {ens33}
    /\ interfaces[ens33] = [state |-> <<"UP">>, mac |-> Mac1, ips |-> <<Cidr1>>]
    /\ interfaces[lo] = [state |-> <<"UNKNOWN">>, mac |-> None, ips |-> <<Cidr2>>]

(***************************************************************************)
(* choose_interface on an interface table and the operator's responses     *)
(***************************************************************************)
MaxIfaces == 3

IfUniverse == <<lo, ens36, ens33, <<"eth0">> >>
IfRecord == [state |-> <<"UP">>, mac |-> None, ips |-> <<>>]
ChoiceInputs ==
    { <<>>, <<" ">>, <<"0">>, <<"1">>, <<" ", "2", " ">>, <<"3">>, <<"4">>, <<"5">>,
      <<"x">>, <<"1", "x">>, <<"0", "1">>, <<"1", "0">>, <<"-", "1">> }

InitChoose ==
    /\ pc = "choose"
    /\ \E S \in SUBSET {IfUniverse[i] : i \in 1..MaxIfaces} :
          interfaces = [n \in S |-> IfRecord]
    /\ allow_empty \in BOOLEAN
    /\ typed = Unset /\ chosen = Unset
    /\ yaml_content = Unset
    /\ HostIdle /\ ParamIdle /\ FsIdle /\ RunIdle

\* lines 118-121: no interface to choose from
ChooseNoNames ==
    /\ pc = "choose"
    /\ choose_names(interfaces) = <<>>
    /\ chosen' = None
    /\ pc' = "chosen"
    /\ UNCHANGED <<hostVars, interfaces, allow_empty, typed, paramVars, fsVars,
                   yaml_content, runVars>>

\* lines 132-145: one prompt and the operator's response to it
ChoosePrompt ==
    /\ pc = "choose"
    /\ choose_names(interfaces) # <<>>
    /\ \E raw \in ChoiceInputs :
         LET r == choose_interface(choose_names(interfaces), allow_empty, raw) IN
         /\ typed' = raw
         /\ IF r.returned
            THEN chosen' = r.value /\ pc' = "chosen"
            ELSE UNCHANGED <<chosen, pc>>
    /\ UNCHANGED <<hostVars, interfaces, allow_empty, paramVars, fsVars,
                   yaml_content, runVars>>

NextChoose == ChooseNoNames \/ ChoosePrompt

SpecChoose == InitChoose /\ [][NextChoose]_vars

Blank(raw) == \A i \in 1..Len(raw) : raw[i] = " "

\* C8 (as claimed): None is returned only for an empty response with
\* allow_empty, and never with allow_empty false whatever the interface set; a
\* name is returned only as the n-th of the sorted names for a number n in
\* 1..count; every other response leads to a new prompt.
C8_SelectionResult ==
    /\ pc = "chosen" /\ chosen = None => allow_empty /\ typed # Unset /\ Blank(typed)
    /\ ~allow_empty => ~(pc = "chosen" /\ chosen = None)
    /\ pc = "chosen" /\ chosen # None =>
          /\ IsDigit(Strip(typed))
          /\ ToInt(Strip(typed)) \in 1..Cardinality(DOMAIN interfaces)
          /\ chosen = choose_names(interfaces)[ToInt(Strip(typed))]
    /\ pc = "choose" /\ typed # Unset =>
          /\ chosen = Unset
          /\ ~(allow_empty /\ Blank(typed))
          /\ ~(IsDigit(Strip(typed))
               /\ ToInt(Strip(typed)) \in 1..Cardinality(DOMAIN interfaces))

(***************************************************************************)
(* backup_netplan on a directory                                           *)
(***************************************************************************)
MaxFiles == 5

FileUniverse ==
    << <<"a", ".yaml">>, <<"b", ".yml">>, <<"c", ".txt">>, <<"d", ".yaml", ".bak">>,
       <<"yaml">>, <<"e", ".YAML">>, <<"f", ".yml">> >>
BackupInitialDirs ==
    { NoFiles,
      (backup_dir_name(Earlier) :> (<<"a", ".yaml">> :> OldFile("a0"))),
      (backup_dir_name(Now) :> (<<"z", ".yaml">> :> OldFile("z0"))) }

InitBackup ==
    /\ pc = "backup_netplan"
    /\ \E S \in SUBSET {FileUniverse[i] : i \in 1..MaxFiles} :
          files = [f \in S |-> OldFile(f[1])]
    /\ dirs \in BackupInitialDirs
    /\ backup_dir = Unset
    /\ interfaces = NoInterfaces
    /\ yaml_content = Unset
    /\ HostIdle /\ ChooseIdle /\ ParamIdle /\ RunIdle

\* backup_netplan(netplan_dir), lines 148-170
BackupCall ==
    /\ pc = "backup_netplan"
    /\ dirs' = backup_netplan(files, dirs, Now)
    /\ backup_dir' = backup_dir_name(Now)
    /\ pc' = "backed_up"
    /\ UNCHANGED <<hostVars, interfaces, chooseVars, paramVars, files,
                   yaml_content, runVars>>

NextBackup == BackupCall

SpecBackup == InitBackup /\ [][NextBackup]_vars

YamlName(f) == f[Len(f)] \in {".yaml", ".yml"}

\* C7: backup copies into the timestamped subdirectory exactly the entries
\* whose names end in .yaml or .yml, and leaves the originals, the other
\* entries and the other subdirectories as they were; with no such entry it
\* copies nothing and still returns the created directory.
C7_BackupFrame ==
    [][pc = "backup_netplan" /\ pc' = "backed_up" =>
        LET before == IF backup_dir' \in DOMAIN dirs THEN dirs[backup_dir'] ELSE NoFiles
            after == dirs'[backup_dir']
            matching == {f \in DOMAIN files : YamlName(f)}
        IN /\ files' = files
           /\ backup_dir' = <<"backup-", Now>>
           /\ DOMAIN dirs' = DOMAIN dirs \cup {backup_dir'}
           /\ \A d \in DOMAIN dirs : d # backup_dir' => dirs'[d] = dirs[d]
           /\ DOMAIN after = matching \cup DOMAIN before
           /\ \A f \in matching : after[f] = files[f]
           /\ \A f \in DOMAIN before \ matching : after[f] = before[f]
           /\ matching = {} => after = before]_vars

C7_Witness ==
    /\ pc = "backed_up"
    /\ DOMAIN files = {<<"a", ".yaml">>, <<"b", ".yml">>, <<"c", ".txt">>, <<"d", ".yaml", ".bak">>}
    /\ backup_dir \in DOMAIN dirs
    /\ DOMAIN dirs[backup_dir] = {<<"a", ".yaml">>, <<"b", ".yml">>}

====
